---- MODULE Spec2Model ----
(***************************************************************************)
(* State-machine model of the <z-autocomplete> custom element              *)
(* (src/src/z-autocomplete.ts, class ZAutocomplete<OptionValue>) together   *)
(* with the host callbacks of the demo page (src/src/demo.ts).              *)
(*                                                                         *)
(* The element runs on the single UI thread.  Every action below is one     *)
(* task of the event loop: one listener invocation, one timer callback,     *)
(* one promise continuation, or one synchronous call made by the host.      *)
(* The `value` setter dispatches its notification synchronously and defers  *)
(* the state change to a promise continuation (updateComplete.then); the    *)
(* continuations wait in `microtasks` and run before any further task.      *)
(***************************************************************************)
EXTENDS Integers, Sequences, Bags

\* ------------------------------------------------------------------ bounds
MaxLen == 1         \* longest list a fetch resolves with
MaxInflight == 2    \* fetch promises pending at the same time
MaxOptions == 3     \* longest option list SpecList starts from

\* --------------------------------------------------------------- constants
Undef == -1         \* the JavaScript value `undefined` of a value / data item
NoIndex == -1       \* _activeOptionIndex when no option is highlighted

\* AUTOCOMPLETE_DATA[id].name of the demo page
Names ==
    << "Option1", "Option2", "Option3", "Option4", "Option5 (preventDefault)",
       "Option6", "Option7", "Option8", "Option9", "Option10", "Option11",
       "Option12" >>

\* the ids the demo's dataToOption turns into titles (disabled options)
Titles == {1, 4, 7}

\* the items of AUTOCOMPLETE_DATA the host's fetchData answers with, by id
DataIds == {1, 2}
\* the items the list SpecList starts from is made of, by id
ListIds == {1, 2, 3}
Data == DataIds \cup {Undef}

\* texts the user types into the bound field
Typed == {"ab", "abc"}

\* keys the keydown listener receives
Keys == {"ArrowDown", "ArrowUp", "Enter", "Escape", "Tab"}

\* reasons given to AbortController.abort
ReasonCleared == "has been cleared"
ReasonDestroyed == "is beeing destroyed"

VARIABLES
    inputText,           \* _inputEl.value
    _value,              \* committed value
    _options,            \* stored option list (0-based in the code, 1-based here)
    _open,               \* visibility flag of the list
    _activeOptionIndex,  \* 0-based index of the highlighted option, or NoIndex
    _abortController,    \* "absent", "live", or the reason its signal was aborted with
    clearHidden,         \* _clearEl.hidden
    timer,               \* number of pending timeouts of the debounced _onInputChange
    timerOuter,          \* number of pending timeouts of the debounce a second
                         \* connectedCallback wraps around the debounced function
    fetches,             \* bag of the pending fetchData promises
    microtasks,          \* deferred continuations of the value setter, in order
    emitted,             \* details of the 'autocomplete' events dispatched by the last step
    heard,               \* what the host's listener could read while each of them
                         \* was dispatched: see dispatchEvent
    given,               \* the lists the last step assigned to `options`, as given
    called,              \* fetchData calls made by the last step, each with the
                         \* number of input events that armed its timeout
    op,                  \* the handler the last step ran, with its argument
    lifecycle,           \* "created", "connecting" (connectedCallback awaits the
                         \* first update), "connected", "failed", "disconnected"
    listeners,           \* the listener functions registered on the field, the
                         \* clear control and the document
    _inputEls,           \* number of slotted elements with data-z-autocomplete-input
    sinceInput,          \* history of the last input event: see Since
    committedSinceInput  \* history: the continuation of a value setter has stored
                         \* a value (not undefined) since the last input event

vars == << inputText, _value, _options, _open, _activeOptionIndex, _abortController,
           clearHidden, timer, timerOuter, fetches, microtasks, emitted, heard, given, called, op,
           lifecycle, listeners, _inputEls, sinceInput, committedSinceInput >>

life == << lifecycle, listeners, _inputEls >>

\* ------------------------------------------------------------ pure helpers

\* An optional result (T | undefined) is a sequence of length 0 or 1.
Truthy(v) == v # Undef /\ v # 0

\* fullExampleEl.dataToOption of the demo page
dataToOption(data) ==
    IF ~Truthy(data) THEN << >>
    ELSE << [ label      |-> [ element |-> data \in Titles, text |-> Names[data] ],
              inputValue |-> << Names[data] >>,
              value      |-> data,
              disabled   |-> data \in Titles ] >>

\* data.map(this.dataToOption.bind(this)): one optional option per item
RECURSIVE MapDataToOption(_)
MapDataToOption(data) ==
    IF data = << >> THEN << >>
    ELSE << dataToOption(Head(data)) >> \o MapDataToOption(Tail(data))

\* a filter that returns the kept entries last to first
RECURSIVE FilterBoolean_reverses(_)
FilterBoolean_reverses(val) ==
    IF val = << >> THEN << >>
    ELSE FilterBoolean_reverses(Tail(val)) \o Head(val)

\* val.filter(Boolean)
RECURSIVE FilterBoolean(_)
FilterBoolean(val) ==
    IF val = << >> THEN << >>
    ELSE Head(val) \o FilterBoolean(Tail(val))

\* the text the value setter writes into the field for the option that
\* dataToOption made of an accepted value
FieldText(option) ==
    IF option # << >> /\ option[1].inputValue # << >> /\ option[1].inputValue[1] # ""
        THEN option[1].inputValue[1]
    ELSE IF option # << >> /\ ~option[1].label.element
        THEN option[1].label.text
    ELSE IF option # << >> /\ option[1].label.element
        THEN option[1].label.text
    ELSE ""

\* the text the value setter writes into the field for an accepted value
DisplayText(val) == FieldText(dataToOption(val))

\* an open setter that does not look at the length of the list
set_open_anyList(val, options, active) ==
    [ options |-> options,
      open    |-> val,
      active  |-> IF ~val THEN NoIndex ELSE active ]

\* an open setter that keeps the active index when it closes the list
set_open_keepsActive(val, options, active) ==
    [ options |-> options,
      open    |-> val /\ Len(options) > 0,
      active  |-> active ]

\* set open(val): the list state [options, open, active] after the assignment
set_open(val, options, active) ==
    LET o == val /\ Len(options) > 0
    IN  [ options |-> options,
          open    |-> o,
          active  |-> IF ~o THEN NoIndex ELSE active ]

\* an options setter that opens the list whatever it was given
set_options_opens(val, active) ==
    [ options |-> FilterBoolean(val), open |-> TRUE, active |-> active ]

\* an options setter that appends to the stored list
set_options_appends(val, active) ==
    set_open(Len(val) > 0, _options \o FilterBoolean(val), active)

\* set options(val): val is the list before filtering
set_options(val, active) ==
    set_open(Len(val) > 0, FilterBoolean(val), active)

\* a _navigateToOption that does not pass over disabled options
_navigateToOption_noSkip(newIndex, active, options) ==
    IF newIndex < 0 \/ newIndex > Len(options) - 1 THEN active ELSE newIndex

\* a _navigateToOption that stops on the last option when it runs off the end
RECURSIVE _navigateToOption_clamps(_, _, _)
_navigateToOption_clamps(newIndex, active, options) ==
    IF newIndex < 0 THEN active
    ELSE IF newIndex = active THEN active
    ELSE IF newIndex > Len(options) - 1 THEN Len(options) - 1
    ELSE IF options[newIndex + 1].disabled
        THEN LET offset == newIndex - active
                 offset2 == IF offset > 0 THEN offset + 1 ELSE offset - 1
             IN  _navigateToOption_clamps(active + offset2, active, options)
    ELSE newIndex

\* _navigateToOption(newIndex): the active index it leaves
RECURSIVE _navigateToOption(_, _, _)
_navigateToOption(newIndex, active, options) ==
    IF newIndex < 0 THEN active
    ELSE IF newIndex = active THEN active
    ELSE IF newIndex > Len(options) - 1 THEN active
    ELSE IF options[newIndex + 1].disabled
        THEN LET offset == newIndex - active
                 offset2 == IF offset > 0 THEN offset + 1 ELSE offset - 1
             IN  _navigateToOption(active + offset2, active, options)
    ELSE newIndex

\* _navigateToOption(newIndex): the number of calls of _navigateToOption it
\* makes, itself included
RECURSIVE NavigateCalls(_, _, _)
NavigateCalls(newIndex, active, options) ==
    IF newIndex < 0 THEN 1
    ELSE IF newIndex = active THEN 1
    ELSE IF newIndex > Len(options) - 1 THEN 1
    ELSE IF options[newIndex + 1].disabled
        THEN LET offset == newIndex - active
                 offset2 == IF offset > 0 THEN offset + 1 ELSE offset - 1
             IN  1 + NavigateCalls(active + offset2, active, options)
    ELSE 1

\* _abortController?.abort(reason): the controller afterwards
abort(controller, reason) ==
    IF controller = "live" THEN reason ELSE controller

\* a debounce without its clearTimeout: every call adds a timeout
debounce_keepsPending(pending) == pending + 1

\* the debounced function: clearTimeout(timer); timer = setTimeout(...);
\* the number of timeouts pending afterwards
debounce(pending) == 1

\* _updateClearElVisibility: _clearEl.hidden
ClearElHidden(value, text) == ~(Truthy(value) \/ text # "")

\* a value setter that stores the value before it dispatches the event
dispatchEvent_afterStore(detail, value, controller) ==
    [ detail |-> detail, value |-> detail, signal |-> controller ]

\* this.dispatchEvent(autocompleteEvt) runs the listeners of the host inside
\* the call: what a listener reads there is the detail of the event, the
\* `value` of the element and the state of the signal handed to fetchData
dispatchEvent(detail, value, controller) ==
    [ detail |-> detail, value |-> value, signal |-> controller ]

\* the value setter up to the dispatch: the continuation it defers
set_value(val, defaultPrevented) ==
    [ val |-> val, defaultPrevented |-> defaultPrevented ]

\* a continuation that stores the proposed value whatever the listeners did
CommittedValue_ignoresVeto(task) == task.val

\* a continuation that keeps the previous committed value on a veto
CommittedValue_rollsBack(task) ==
    IF ~task.defaultPrevented THEN task.val ELSE _value

\* the committed value the deferred continuation of the value setter stores
CommittedValue(task) ==
    IF ~task.defaultPrevented THEN task.val ELSE Undef

\* a continuation that leaves the field text as it is
CommittedText_keepsText(task) == inputText

\* the field text the deferred continuation of the value setter writes
CommittedText(task) ==
    IF ~task.defaultPrevented THEN DisplayText(task.val) ELSE ""

\* a _selectOption that does not look at option.disabled
_selectOption_ignoresDisabled(option) ==
    IF option = << >> THEN << >> ELSE << option[1].value >>

\* _selectOption(option): the values it assigns to `value` (none or one)
_selectOption(option) ==
    IF option = << >> \/ option[1].disabled THEN << >>
    ELSE << option[1].value >>

\* an indexing that is off by one
OptionAt_next(options, i) ==
    IF i >= 0 /\ i + 1 < Len(options) THEN << options[i + 2] >> ELSE << >>

\* an indexing that counts a negative index from the end, as Array.at does
OptionAt_wraps(options, i) ==
    IF i >= 0 /\ i < Len(options) THEN << options[i + 1] >>
    ELSE IF i < 0 /\ Len(options) + i >= 0 THEN << options[Len(options) + i + 1] >>
    ELSE << >>

\* this.options[i] for a 0-based i: undefined outside the list
OptionAt(options, i) ==
    IF i >= 0 /\ i < Len(options) THEN << options[i + 1] >> ELSE << >>

\* an _onInput that leaves the signal of the pending fetches as it is
Detach_keepsSignal(f) == f

\* A pending fetch holds the signal it was called with: "current" while that
\* is the signal of _abortController, "replaced" once _onInput has aborted
\* that controller and put a new one in its place.
\* `latest` tells that no fetch was started after this one.
Detach(f) == [ f EXCEPT !.signal = "replaced" ]

\* the pending fetches once _abortController is aborted and replaced
Detached(fs) == BagOfAll(Detach, fs)

Older(f) == [ f EXCEPT !.latest = FALSE ]

\* the pending fetches once one more fetch is started
Started(fs) ==
    BagOfAll(Older, fs) (+) SetToBag({ [ signal |-> "current", latest |-> TRUE ] })

\* the lists a fetchData promise resolves with
RawLists == UNION { [1..n -> Data] : n \in 0..MaxLen }

\* The handler a step ran: its name, the value or index it was given (the
\* number of fetched items for the rest of _onInputChange, Undef when it has
\* none) and whether preventDefault was called: on the keydown
\* event by _onKeydown, on the notification by a listener of the host for a
\* value setter's continuation.
Op(name, arg, vetoed) == [ name |-> name, arg |-> arg, vetoed |-> vetoed ]

\* History kept for the claims about debouncing. phase: "none" (no input
\* event yet), "empty" (the last input event left the field empty), "armed"
\* (it left text and fetchData was not called since), "called" (fetchData was
\* called once since), "again" (more than once). While the timeout the event
\* armed is pending, text is the field text the event left and burst the
\* number of input events that armed that timeout (counted up to 2).
Since(phase, text, burst) == [ phase |-> phase, text |-> text, burst |-> burst ]

\* `this._onInput.bind(this)` and the like make a new function each time they
\* are evaluated: the functions connectedCallback registers and the functions
\* disconnectedCallback asks to remove.
BoundAtConnect == "bound in connectedCallback"
BoundAtDisconnect == "bound in disconnectedCallback"
BoundAtReconnect == "bound when connectedCallback ran again"

\* addEventListener / removeEventListener on a target with listeners ls
addEventListener(ls, fn) == ls \cup {fn}
removeEventListener(ls, fn) == ls \ {fn}

\* an _initInputEl that accepts a missing input target
_initInputEl_neverThrows(inputEls) == FALSE

\* _initInputEl throws when the element found no input target
_initInputEl(inputEls) == inputEls = 0

\* ------------------------------------------------------------------- Init
Init ==
    /\ inputText = ""
    /\ _value = Undef
    /\ _options = << >>
    /\ _open = FALSE
    /\ _activeOptionIndex = NoIndex
    /\ _abortController = "absent"
    /\ clearHidden = FALSE
    /\ timer = 0
    /\ fetches = EmptyBag
    /\ microtasks = << >>
    /\ emitted = << >>
    /\ heard = << >>
    /\ given = << >>
    /\ timerOuter = 0
    /\ committedSinceInput = FALSE
    /\ called = << >>
    /\ op = Op("constructor", Undef, FALSE)
    /\ lifecycle = "created"
    /\ listeners = {}
    /\ _inputEls \in {0, 1}
    /\ sinceInput = Since("none", "", 0)

\* ---------------------------------------------------------------- actions
Idle == microtasks = << >>

\* some listener registered by connectedCallback is still in place
Listening == listeners # {}

\* connectedCallback has found the field (_inputEl is set)
Ready == lifecycle \in {"connected", "disconnected"}

\* the element is inserted into the document: connectedCallback up to its
\* `await this.updateComplete`
connectedCallback ==
    /\ lifecycle = "created"
    /\ lifecycle' = "connecting"
    /\ op' = Op("connectedCallback", Undef, FALSE)
    /\ emitted' = << >>
    /\ heard' = << >>
    /\ given' = << >>
    /\ UNCHANGED timerOuter
    /\ UNCHANGED committedSinceInput
    /\ called' = << >>
    /\ UNCHANGED << inputText, _value, _options, _open, _activeOptionIndex,
                    _abortController, clearHidden, timer, fetches, microtasks,
                    listeners, _inputEls, sinceInput >>

\* the rest of connectedCallback, run once the first update is complete
ConnectContinuation ==
    /\ lifecycle = "connecting"
    /\ IF _initInputEl(_inputEls)
         THEN /\ lifecycle' = "failed"
              /\ UNCHANGED << listeners, clearHidden >>
         ELSE /\ lifecycle' = "connected"
              /\ listeners' = addEventListener(listeners,
                                 IF BoundAtConnect \in listeners
                                   THEN BoundAtReconnect ELSE BoundAtConnect)
              /\ clearHidden' = ClearElHidden(_value, inputText)
    /\ op' = Op("connected", Undef, FALSE)
    /\ emitted' = << >>
    /\ heard' = << >>
    /\ given' = << >>
    /\ UNCHANGED timerOuter
    /\ UNCHANGED committedSinceInput
    /\ called' = << >>
    /\ UNCHANGED << inputText, _value, _options, _open, _activeOptionIndex,
                    _abortController, timer, fetches, microtasks, _inputEls,
                    sinceInput >>

\* an _onInput without its `this.options = []`
_onInput_keepsList(t) ==
    LET cleared == [ options |-> _options, open |-> _open,
                    active |-> _activeOptionIndex ]
    IN  /\ Idle
        /\ Listening
        /\ inputText' = t
        /\ _options' = cleared.options
        /\ _open' = cleared.open
        /\ _activeOptionIndex' = cleared.active
        /\ given' = << << >> >>
        /\ UNCHANGED timerOuter
        /\ committedSinceInput' = FALSE
        /\ called' = << >>
        /\ op' = Op("_onInput", Undef, FALSE)
        /\ UNCHANGED life
        /\ IF t = ""
             THEN \E defaultPrevented \in BOOLEAN :
                     /\ _abortController' = abort(_abortController, ReasonCleared)
                     /\ emitted' = << Undef >>
                     /\ heard' =
                           << dispatchEvent(Undef, _value, abort(_abortController, ReasonCleared)) >>
                     /\ microtasks' = Append(microtasks, set_value(Undef, defaultPrevented))
                     /\ sinceInput' = Since("empty", t, 0)
                     /\ UNCHANGED << timer, fetches, clearHidden >>
             ELSE /\ _abortController' = "live"
                  /\ fetches' = Detached(fetches)
                  /\ timer' = debounce(timer)
                  /\ clearHidden' = ClearElHidden(_value, t)
                  /\ emitted' = << >>
                  /\ heard' = << >>
                  /\ sinceInput' = Since("armed", t,
                                          IF timer = 0 THEN 1 ELSE 2)
                  /\ UNCHANGED microtasks
        /\ UNCHANGED << _value >>

\* _onInput after the browser has put text t into the field
_onInput(t) ==
    LET cleared == set_options(<< >>, _activeOptionIndex)
    IN  /\ Idle
        /\ Listening
        /\ inputText' = t
        /\ _options' = cleared.options
        /\ _open' = cleared.open
        /\ _activeOptionIndex' = cleared.active
        /\ given' = << << >> >>
        /\ UNCHANGED timerOuter
        /\ committedSinceInput' = FALSE
        /\ called' = << >>
        /\ op' = Op("_onInput", Undef, FALSE)
        /\ UNCHANGED life
        /\ IF t = ""
             THEN \E defaultPrevented \in BOOLEAN :
                     /\ _abortController' = abort(_abortController, ReasonCleared)
                     /\ emitted' = << Undef >>
                     /\ heard' =
                           << dispatchEvent(Undef, _value, abort(_abortController, ReasonCleared)) >>
                     /\ microtasks' = Append(microtasks, set_value(Undef, defaultPrevented))
                     /\ sinceInput' = Since("empty", t, 0)
                     /\ UNCHANGED << timer, fetches, clearHidden >>
             ELSE /\ _abortController' = "live"
                  /\ fetches' = Detached(fetches)
                  /\ timer' = debounce(timer)
                  /\ clearHidden' = ClearElHidden(_value, t)
                  /\ emitted' = << >>
                  /\ heard' = << >>
                  /\ sinceInput' = Since("armed", t,
                                          IF timer = 0 THEN 1 ELSE 2)
                  /\ UNCHANGED microtasks
        /\ UNCHANGED << _value >>

\* a timeout of the debounced function elapses: _onInputChange up to its await
DebounceFire ==
    /\ Idle
    /\ timer > 0
    /\ BagCardinality(fetches) < MaxInflight
    /\ timer' = timer - 1
    /\ given' = << >>
    /\ UNCHANGED timerOuter
    /\ UNCHANGED committedSinceInput
    /\ called' = << [ query |-> inputText, aborted |-> _abortController # "live",
                       events |-> sinceInput.burst ] >>
    /\ fetches' = Started(fetches)
    /\ emitted' = << >>
    /\ heard' = << >>
    /\ op' = Op("_onInputChange", Undef, FALSE)
    /\ UNCHANGED life
    /\ sinceInput' = CASE sinceInput.phase = "armed" -> Since("called", "", 0)
                        [] sinceInput.phase = "called" -> Since("again", "", 0)
                        [] OTHER -> sinceInput
    /\ UNCHANGED << inputText, _value, _options, _open, _activeOptionIndex,
                    _abortController, clearHidden, microtasks >>

\* the promise of pending fetch f resolves with data: the rest of _onInputChange
FetchResolve(f, data) ==
    LET next == set_options(MapDataToOption(data), _activeOptionIndex)
    IN  /\ Idle
        /\ BagIn(f, fetches)
        /\ fetches' = fetches (-) SetToBag({f})
        /\ _options' = next.options
        /\ _open' = next.open
        /\ _activeOptionIndex' = next.active
        /\ emitted' = << >>
        /\ heard' = << >>
        /\ given' = << MapDataToOption(data) >>
        /\ UNCHANGED timerOuter
        /\ UNCHANGED committedSinceInput
        /\ called' = << >>
        /\ op' = Op("resolve", Len(data), FALSE)
        /\ UNCHANGED life
        /\ UNCHANGED << inputText, _value, _abortController, clearHidden, timer,
                        microtasks, sinceInput >>

\* an _onInputChange that catches the rejection and shows an empty list
FetchReject_showsNothing(f) ==
    LET next == set_options(<< >>, _activeOptionIndex)
    IN  /\ Idle
        /\ BagIn(f, fetches)
        /\ fetches' = fetches (-) SetToBag({f})
        /\ _options' = next.options
        /\ _open' = next.open
        /\ _activeOptionIndex' = next.active
        /\ emitted' = << >>
        /\ heard' = << >>
        /\ given' = << << >> >>
        /\ UNCHANGED timerOuter
        /\ UNCHANGED committedSinceInput
        /\ called' = << >>
        /\ op' = Op("reject", Undef, FALSE)
        /\ UNCHANGED life
        /\ UNCHANGED << inputText, _value, _abortController, clearHidden, timer,
                        microtasks, sinceInput >>

\* the promise of pending fetch f rejects: _onInputChange ends at its await
FetchReject(f) ==
    /\ Idle
    /\ BagIn(f, fetches)
    /\ fetches' = fetches (-) SetToBag({f})
    /\ emitted' = << >>
    /\ heard' = << >>
    /\ given' = << >>
    /\ UNCHANGED timerOuter
    /\ UNCHANGED committedSinceInput
    /\ called' = << >>
    /\ op' = Op("reject", Undef, FALSE)
    /\ UNCHANGED life
    /\ UNCHANGED << inputText, _value, _options, _open, _activeOptionIndex,
                    _abortController, clearHidden, timer, microtasks, sinceInput >>

\* an _onKeydown without its first line
KeyHandled_always(options, open) == TRUE

\* _onKeydown goes past its first line
KeyHandled(options, open) == ~(Len(options) = 0 \/ ~open)

\* the keys whose case calls event.preventDefault()
HandledKeys == {"ArrowDown", "ArrowUp", "Enter", "Escape"}

\* _onKeydown for the key pressed
_onKeydown(key) ==
    /\ Idle
    /\ Listening
    /\ given' = << >>
    /\ UNCHANGED timerOuter
    /\ UNCHANGED committedSinceInput
    /\ called' = << >>
    /\ op' = Op(key, Undef, KeyHandled(_options, _open) /\ key \in HandledKeys)
    /\ UNCHANGED life
    /\ IF ~KeyHandled(_options, _open)
         THEN /\ emitted' = << >>
              /\ heard' = << >>
              /\ UNCHANGED << _open, _activeOptionIndex, microtasks >>
       ELSE IF key = "ArrowDown"
         THEN /\ _activeOptionIndex' =
                    _navigateToOption(_activeOptionIndex + 1, _activeOptionIndex, _options)
              /\ emitted' = << >>
              /\ heard' = << >>
              /\ UNCHANGED << _open, microtasks >>
       ELSE IF key = "ArrowUp"
         THEN /\ _activeOptionIndex' =
                    _navigateToOption(_activeOptionIndex - 1, _activeOptionIndex, _options)
              /\ emitted' = << >>
              /\ heard' = << >>
              /\ UNCHANGED << _open, microtasks >>
       ELSE IF key = "Enter"
         THEN LET sel == _selectOption(OptionAt(_options, _activeOptionIndex))
              IN  /\ IF sel = << >>
                       THEN /\ emitted' = << >>
                            /\ heard' = << >>
                            /\ UNCHANGED microtasks
                       ELSE \E defaultPrevented \in BOOLEAN :
                               /\ emitted' = sel
                               /\ heard' =
                                     << dispatchEvent(sel[1], _value, _abortController) >>
                               /\ microtasks' =
                                     Append(microtasks, set_value(sel[1], defaultPrevented))
                  /\ UNCHANGED << _open, _activeOptionIndex >>
       ELSE IF key = "Escape"
         THEN LET next == set_open(FALSE, _options, _activeOptionIndex)
              IN  /\ _open' = next.open
                  /\ _activeOptionIndex' = next.active
                  /\ emitted' = << >>
                  /\ heard' = << >>
                  /\ UNCHANGED microtasks
       ELSE /\ emitted' = << >>
            /\ heard' = << >>
            /\ UNCHANGED << _open, _activeOptionIndex, microtasks >>
    /\ UNCHANGED << inputText, _value, _options, _abortController, clearHidden, timer,
                    fetches, sinceInput >>

\* the click listener of the rendered option with data-index i
ClickOption(i) ==
    LET sel == _selectOption(OptionAt(_options, i))
    IN  /\ Idle
        /\ _open
        /\ i \in 0..(Len(_options) - 1)
        /\ IF sel = << >>
             THEN /\ emitted' = << >>
                  /\ heard' = << >>
                  /\ UNCHANGED microtasks
             ELSE \E defaultPrevented \in BOOLEAN :
                     /\ emitted' = sel
                     /\ heard' =
                           << dispatchEvent(sel[1], _value, _abortController) >>
                     /\ microtasks' = Append(microtasks, set_value(sel[1], defaultPrevented))
        /\ given' = << >>
        /\ UNCHANGED timerOuter
        /\ UNCHANGED committedSinceInput
        /\ called' = << >>
        /\ op' = Op("click", i, FALSE)
        /\ UNCHANGED life
        /\ UNCHANGED << inputText, _value, _options, _open, _activeOptionIndex,
                        _abortController, clearHidden, timer, fetches, sinceInput >>

\* a _handleClickOutside that also aborts the pending fetch
_handleClickOutside_aborts(inside) ==
    LET next == set_open(inside, _options, _activeOptionIndex)
    IN  /\ Idle
        /\ Listening
        /\ _open' = next.open
        /\ _activeOptionIndex' = next.active
        /\ _abortController' = abort(_abortController, ReasonCleared)
        /\ emitted' = << >>
        /\ heard' = << >>
        /\ given' = << >>
        /\ UNCHANGED timerOuter
        /\ UNCHANGED committedSinceInput
        /\ called' = << >>
        /\ op' = Op("_handleClickOutside", Undef, FALSE)
        /\ UNCHANGED << inputText, _value, _options, clearHidden, timer, fetches,
                        microtasks, sinceInput, life >>

\* _handleClickOutside for a click whose target is inside the element or not
_handleClickOutside(inside) ==
    LET next == set_open(inside, _options, _activeOptionIndex)
    IN  /\ Idle
        /\ Listening
        /\ _open' = next.open
        /\ _activeOptionIndex' = next.active
        /\ emitted' = << >>
        /\ heard' = << >>
        /\ given' = << >>
        /\ UNCHANGED timerOuter
        /\ UNCHANGED committedSinceInput
        /\ called' = << >>
        /\ op' = Op("_handleClickOutside", Undef, FALSE)
        /\ UNCHANGED life
        /\ UNCHANGED << inputText, _value, _options, _abortController, clearHidden,
                        timer, fetches, microtasks, sinceInput >>

\* an _onClear that assigns undefined before it aborts the controller
_onClear_dispatchesFirst ==
    /\ Idle
    /\ Ready
    /\ \E defaultPrevented \in BOOLEAN :
          /\ _abortController' = abort(_abortController, ReasonCleared)
          /\ emitted' = << Undef >>
          /\ heard' = << dispatchEvent(Undef, _value, _abortController) >>
          /\ microtasks' = Append(microtasks, set_value(Undef, defaultPrevented))
    /\ given' = << >>
    /\ UNCHANGED timerOuter
    /\ UNCHANGED committedSinceInput
    /\ called' = << >>
    /\ op' = Op("_onClear", Undef, FALSE)
    /\ UNCHANGED life
    /\ UNCHANGED << inputText, _value, _options, _open, _activeOptionIndex, clearHidden,
                    timer, fetches, sinceInput >>

\* _onClear: a click on the clear control, or clear() called by the host
_onClear ==
    /\ Idle
    /\ Ready
    /\ \E defaultPrevented \in BOOLEAN :
          /\ _abortController' = abort(_abortController, ReasonCleared)
          /\ emitted' = << Undef >>
          /\ heard' =
                << dispatchEvent(Undef, _value, abort(_abortController, ReasonCleared)) >>
          /\ microtasks' = Append(microtasks, set_value(Undef, defaultPrevented))
    /\ given' = << >>
    /\ UNCHANGED timerOuter
    /\ UNCHANGED committedSinceInput
    /\ called' = << >>
    /\ op' = Op("_onClear", Undef, FALSE)
    /\ UNCHANGED life
    /\ UNCHANGED << inputText, _value, _options, _open, _activeOptionIndex, clearHidden,
                    timer, fetches, sinceInput >>

\* the host assigns val to the value property
HostSetValue(val) ==
    /\ Idle
    /\ Ready
    /\ \E defaultPrevented \in BOOLEAN :
          /\ emitted' = << val >>
          /\ heard' =
                << dispatchEvent(val, _value, _abortController) >>
          /\ microtasks' = Append(microtasks, set_value(val, defaultPrevented))
    /\ given' = << >>
    /\ UNCHANGED timerOuter
    /\ UNCHANGED committedSinceInput
    /\ called' = << >>
    /\ op' = Op("value", val, FALSE)
    /\ UNCHANGED life
    /\ UNCHANGED << inputText, _value, _options, _open, _activeOptionIndex,
                    _abortController, clearHidden, timer, fetches, sinceInput >>

\* the continuation the value setter handed to updateComplete.then
ValueContinuation ==
    LET task == Head(microtasks)
        next == set_options(<< >>, _activeOptionIndex)
    IN  /\ microtasks # << >>
        /\ microtasks' = Tail(microtasks)
        /\ _value' = CommittedValue(task)
        /\ inputText' = CommittedText(task)
        /\ _options' = next.options
        /\ _open' = next.open
        /\ _activeOptionIndex' = next.active
        /\ clearHidden' = ClearElHidden(_value', inputText')
        /\ emitted' = << >>
        /\ heard' = << >>
        /\ given' = << << >> >>
        /\ UNCHANGED timerOuter
        /\ committedSinceInput' =
              (committedSinceInput \/ (~task.defaultPrevented /\ task.val # Undef))
        /\ called' = << >>
        /\ op' = Op("then", task.val, task.defaultPrevented)
        /\ UNCHANGED life
        /\ UNCHANGED << _abortController, timer, fetches, sinceInput >>

\* disconnectedCallback
disconnectedCallback ==
    /\ Idle
    /\ lifecycle = "connected"
    /\ lifecycle' = "disconnected"
    /\ listeners' = removeEventListener(listeners, BoundAtDisconnect)
    /\ UNCHANGED _inputEls
    /\ _abortController' = abort(_abortController, ReasonDestroyed)
    /\ emitted' = << >>
    /\ heard' = << >>
    /\ given' = << >>
    /\ UNCHANGED timerOuter
    /\ UNCHANGED committedSinceInput
    /\ called' = << >>
    /\ op' = Op("disconnectedCallback", Undef, FALSE)
    /\ UNCHANGED << inputText, _value, _options, _open, _activeOptionIndex, clearHidden,
                    timer, fetches, microtasks, sinceInput >>

Next ==
    \/ connectedCallback
    \/ ConnectContinuation
    \/ \E t \in Typed \cup {""} : _onInput(t)
    \/ DebounceFire
    \/ \E f \in BagToSet(fetches) : \E data \in RawLists : FetchResolve(f, data)
    \/ \E f \in BagToSet(fetches) : FetchReject(f)
    \/ \E key \in Keys : _onKeydown(key)
    \/ \E i \in 0..(Len(_options) - 1) : ClickOption(i)
    \/ \E inside \in BOOLEAN : _handleClickOutside(inside)
    \/ _onClear
    \/ \E val \in Data : HostSetValue(val)
    \/ ValueContinuation
    \/ disconnectedCallback

Spec == Init /\ [][Next]_vars

\* --------------------------------------------------- the list being shown
\* The option lists a resolved fetch leaves on screen.
OptionLists ==
    { FilterBoolean(MapDataToOption(data)) :
        data \in UNION { [1..n -> ListIds] : n \in 1..MaxOptions } }

\* The states in which the last fetch has just resolved with a list of up to
\* MaxOptions items: the user typed some text, the timeout elapsed, the fetch
\* resolved. An earlier fetch may still be pending.
InitList ==
    /\ inputText \in Typed
    /\ _value \in Data
    /\ _options \in OptionLists
    /\ _open = TRUE
    /\ _activeOptionIndex = NoIndex
    /\ _abortController = "live"
    /\ clearHidden = FALSE
    /\ timer = 0
    /\ fetches \in { EmptyBag, SetToBag({ [ signal |-> "replaced", latest |-> FALSE ] }) }
    /\ microtasks = << >>
    /\ emitted = << >>
    /\ heard = << >>
    /\ given = << >>
    /\ timerOuter = 0
    /\ committedSinceInput = FALSE
    /\ called = << >>
    /\ op = Op("resolve", Len(_options), FALSE)
    /\ lifecycle = "connected"
    /\ listeners = {BoundAtConnect}
    /\ _inputEls = 1
    /\ sinceInput = Since("called", "", 0)

NextList ==
    \/ \E key \in Keys : _onKeydown(key)
    \/ \E i \in 0..(Len(_options) - 1) : ClickOption(i)
    \/ \E inside \in BOOLEAN : _handleClickOutside(inside)
    \/ _onClear
    \/ \E val \in Data : HostSetValue(val)
    \/ ValueContinuation
    \/ \E f \in BagToSet(fetches) : \E data \in RawLists : FetchResolve(f, data)
    \/ \E f \in BagToSet(fetches) : FetchReject(f)

SpecList == InitList /\ [][NextList]_vars

\* ------------------------------------------- fetchData is not overridden
\* the list the fetchData of the class resolves with
fetchData == << >>

\* The element as it is without a host fetchData: every fetch resolves with
\* the list of the default fetchData, and no option is ever rendered to be
\* clicked.
NextDefault ==
    \/ connectedCallback
    \/ ConnectContinuation
    \/ \E t \in Typed \cup {""} : _onInput(t)
    \/ DebounceFire
    \/ \E f \in BagToSet(fetches) : FetchResolve(f, fetchData)
    \/ \E key \in Keys : _onKeydown(key)
    \/ \E inside \in BOOLEAN : _handleClickOutside(inside)
    \/ _onClear
    \/ \E val \in Data : HostSetValue(val)
    \/ ValueContinuation
    \/ disconnectedCallback

SpecDefault == Init /\ [][NextDefault]_vars

\* ------------------------------------------------- the lists of a fetch
\* the lists of up to MaxOptions items a fetchData promise resolves with
LongLists == UNION { [1..n -> Data] : n \in 0..MaxOptions }

\* The states in which fetchData has just been called for the typed text.
InitOptions ==
    /\ inputText \in Typed
    /\ _value = Undef
    /\ _options = << >>
    /\ _open = FALSE
    /\ _activeOptionIndex = NoIndex
    /\ _abortController = "live"
    /\ clearHidden = FALSE
    /\ timer = 0
    /\ fetches = SetToBag({ [ signal |-> "current", latest |-> TRUE ] })
    /\ microtasks = << >>
    /\ emitted = << >>
    /\ heard = << >>
    /\ given = << >>
    /\ timerOuter = 0
    /\ committedSinceInput = FALSE
    /\ called = << [ query |-> inputText, aborted |-> FALSE, events |-> 1 ] >>
    /\ op = Op("_onInputChange", Undef, FALSE)
    /\ lifecycle = "connected"
    /\ listeners = {BoundAtConnect}
    /\ _inputEls = 1
    /\ sinceInput = Since("called", "", 0)

\* Typing, the fetches it starts with their results of up to MaxOptions
\* items, and the keys and clicks that do not assign a value. The user
\* types slowly enough for at most two fetches to be pending at a time.
NextOptions ==
    \/ \E t \in Typed : _onInput(t)
    \/ (BagCardinality(fetches) <= 1 /\ DebounceFire)
    \/ \E f \in BagToSet(fetches) : \E data \in LongLists : FetchResolve(f, data)
    \/ \E key \in Keys \ {"Enter"} : _onKeydown(key)
    \/ \E inside \in BOOLEAN : _handleClickOutside(inside)

SpecOptions == InitOptions /\ [][NextOptions]_vars

\* ------------------------------------------------ any host dataToOption
\* The values a host of numbers commits: 0 is a value that is not undefined
\* and that JavaScript takes for false.
HostValues == Data \cup {0}

\* The options a host's dataToOption may return for a value: none, or an
\* option whose label is text or an element and whose inputValue is absent,
\* empty or some text.
HostOptions ==
    { << >> } \cup
    { << [ label      |-> [ element |-> e, text |-> l ],
           inputValue |-> iv,
           value      |-> 1,
           disabled   |-> FALSE ] >> :
        e \in BOOLEAN, l \in {"", "Label"}, iv \in { << >>, << "" >>, << "Name" >> } }

\* the continuation of the value setter when the dataToOption of the host
\* returns option for the proposed value
ValueContinuationOf(option) ==
    LET task == Head(microtasks)
        next == set_options(<< >>, _activeOptionIndex)
    IN  /\ microtasks # << >>
        /\ microtasks' = Tail(microtasks)
        /\ _value' = CommittedValue(task)
        /\ inputText' = IF ~task.defaultPrevented THEN FieldText(option) ELSE ""
        /\ _options' = next.options
        /\ _open' = next.open
        /\ _activeOptionIndex' = next.active
        /\ clearHidden' = ClearElHidden(_value', inputText')
        /\ emitted' = << >>
        /\ heard' = << >>
        /\ given' = << << >> >>
        /\ UNCHANGED timerOuter
        /\ committedSinceInput' =
              (committedSinceInput \/ (~task.defaultPrevented /\ task.val # Undef))
        /\ called' = << >>
        /\ op' = Op("then", task.val, task.defaultPrevented)
        /\ UNCHANGED life
        /\ UNCHANGED << _abortController, timer, fetches, sinceInput >>

\* The element under a host that gives it a dataToOption and values of its
\* own and leaves fetchData as it is.
NextHost ==
    \/ connectedCallback
    \/ ConnectContinuation
    \/ \E t \in Typed \cup {""} : _onInput(t)
    \/ DebounceFire
    \/ \E f \in BagToSet(fetches) : FetchResolve(f, fetchData)
    \/ \E key \in Keys : _onKeydown(key)
    \/ \E inside \in BOOLEAN : _handleClickOutside(inside)
    \/ _onClear
    \/ \E val \in HostValues : HostSetValue(val)
    \/ \E option \in HostOptions : ValueContinuationOf(option)
    \/ disconnectedCallback

SpecHost == Init /\ [][NextHost]_vars

\* ------------------------------------------- the element inserted again
\* connectedCallback ran twice: the listeners of both runs are in place and
\* _onInputChange is the debounced function debounced once more
Twice == BoundAtReconnect \in listeners

\* the element is inserted into the document again after it was removed:
\* connectedCallback up to its `await this.updateComplete`
Reconnect ==
    /\ Idle
    /\ lifecycle = "disconnected"
    /\ ~Twice
    /\ lifecycle' = "connecting"
    /\ op' = Op("connectedCallback", Undef, FALSE)
    /\ emitted' = << >>
    /\ heard' = << >>
    /\ given' = << >>
    /\ called' = << >>
    /\ UNCHANGED << inputText, _value, _options, _open, _activeOptionIndex,
                    _abortController, clearHidden, timer, timerOuter, fetches,
                    microtasks, listeners, _inputEls, sinceInput,
                    committedSinceInput >>

\* one input event on the field while both `input` listeners are in place:
\* _onInput runs twice, one run after the other
InputTwice(t) ==
    /\ Idle
    /\ Twice
    /\ inputText' = t
    /\ _options' = << >>
    /\ _open' = FALSE
    /\ _activeOptionIndex' = NoIndex
    /\ given' = << << >>, << >> >>
    /\ called' = << >>
    /\ op' = Op("_onInput", Undef, FALSE)
    /\ committedSinceInput' = FALSE
    /\ UNCHANGED life
    /\ IF t = ""
         THEN \E defaultPrevented \in BOOLEAN :
                 LET aborted == abort(_abortController, ReasonCleared)
                     task == set_value(Undef, defaultPrevented)
                 IN  /\ _abortController' = aborted
                     /\ emitted' = << Undef, Undef >>
                     /\ heard' = << dispatchEvent(Undef, _value, aborted),
                                    dispatchEvent(Undef, _value, aborted) >>
                     /\ microtasks' = microtasks \o << task, task >>
                     /\ sinceInput' = Since("empty", t, 0)
                     /\ UNCHANGED << timer, timerOuter, fetches, clearHidden >>
         ELSE /\ _abortController' = "live"
              /\ fetches' = Detached(Detached(fetches))
              /\ timerOuter' = debounce(debounce(timerOuter))
              /\ clearHidden' = ClearElHidden(_value, t)
              /\ emitted' = << >>
              /\ heard' = << >>
              /\ sinceInput' = Since("armed", t, IF timerOuter = 0 THEN 1 ELSE 2)
              /\ UNCHANGED << timer, microtasks >>
    /\ UNCHANGED << _value >>

\* one click on the clear control while both `click` listeners are in place:
\* _onClear runs twice
ClearTwice ==
    /\ Idle
    /\ Twice
    /\ \E defaultPrevented \in BOOLEAN :
          LET aborted == abort(_abortController, ReasonCleared)
              task == set_value(Undef, defaultPrevented)
          IN  /\ _abortController' = aborted
              /\ emitted' = << Undef, Undef >>
              /\ heard' = << dispatchEvent(Undef, _value, aborted),
                             dispatchEvent(Undef, _value, aborted) >>
              /\ microtasks' = microtasks \o << task, task >>
    /\ given' = << >>
    /\ called' = << >>
    /\ op' = Op("_onClear", Undef, FALSE)
    /\ UNCHANGED life
    /\ UNCHANGED << inputText, _value, _options, _open, _activeOptionIndex, clearHidden,
                    timer, timerOuter, fetches, sinceInput, committedSinceInput >>

\* a timeout of the outer debounce elapses: it calls the debounced function
\* of the first connectedCallback, which arms its own timeout
DebounceOuterFire ==
    /\ Idle
    /\ timerOuter > 0
    /\ timerOuter' = timerOuter - 1
    /\ timer' = debounce(timer)
    /\ emitted' = << >>
    /\ heard' = << >>
    /\ given' = << >>
    /\ called' = << >>
    /\ op' = Op("debounce", Undef, FALSE)
    /\ UNCHANGED life
    /\ UNCHANGED << inputText, _value, _options, _open, _activeOptionIndex,
                    _abortController, clearHidden, fetches, microtasks, sinceInput,
                    committedSinceInput >>

\* The element with the default fetchData, removed from the document and
\* inserted again once; the user types and clicks the clear control.
NextReconnect ==
    \/ connectedCallback
    \/ ConnectContinuation
    \/ disconnectedCallback
    \/ Reconnect
    \/ \E t \in Typed \cup {""} : (~Twice /\ _onInput(t))
    \/ \E t \in Typed \cup {""} : InputTwice(t)
    \/ (~Twice /\ Listening /\ _onClear)
    \/ ClearTwice
    \/ DebounceOuterFire
    \/ DebounceFire
    \/ \E f \in BagToSet(fetches) : FetchResolve(f, fetchData)
    \/ ValueContinuation

SpecReconnect == Init /\ [][NextReconnect]_vars

\* ------------------------------------------------------------------ claims
\* The steps in which pending fetch f settles (its promise resolves or rejects).
Settles(f) == BagIn(f, fetches) /\ fetches' = fetches (-) SetToBag({f})

ListState == << _options, _open, _activeOptionIndex >>

\* C1: when fetch A is pending and a later fetch B was started, the settling
\* of A never changes the option list, the open state or the active index,
\* whether it settles before or after B.
C1_StaleFetchNeverApplied ==
    [][\A f \in BagToSet(fetches) :
          (~f.latest /\ Settles(f)) => UNCHANGED ListState]_vars

\* C2: when the signal handed to a fetch was aborted by a clear or by the
\* teardown before its promise resolves, the result is discarded: an empty,
\* closed list is still empty and closed after the resolution.
C2_AbortedFetchDiscarded ==
    [][\A f \in BagToSet(fetches) :
          ( /\ Settles(f)
            /\ f.signal = "current"
            /\ _abortController \in {ReasonCleared, ReasonDestroyed}
            /\ _options = << >> /\ ~_open )
          => (_options' = << >> /\ ~_open')]_vars

C4_NoFetchAfterEmptyInput == sinceInput.phase = "empty" => called = << >>

\* The steps in which the deferred continuation of the oldest pending
\* assignment to `value` runs.
Continues == microtasks # << >> /\ microtasks' = Tail(microtasks)

\* The steps in which `value` is assigned.
Assigns == Len(microtasks') > Len(microtasks)

\* C5 as stated: right after `value` is assigned x, reading it returns x when
\* the notification was not vetoed and undefined when it was.
C5_ReadRightAfterAssign ==
    op.name = "value" =>
        _value = IF microtasks[Len(microtasks)].defaultPrevented THEN Undef ELSE op.arg

\* C5 amended: an assignment of x to `value` leaves the committed value as it
\* was; once the continuation the setter deferred has run, reading the
\* committed value returns x when the notification was not vetoed and
\* undefined when it was.
C5_ReadAfterContinuation ==
    [][ /\ Assigns =>
              /\ _value' = _value
              /\ emitted' = << microtasks'[Len(microtasks')].val >>
              /\ op'.name = "value" => microtasks'[Len(microtasks')].val = op'.arg
        /\ Continues =>
              _value' = IF Head(microtasks).defaultPrevented
                          THEN Undef ELSE Head(microtasks).val ]_vars

\* The host assigned item 1, no listener vetoed, the continuation has run:
\* the committed value is item 1 (an item no option lets the user select).
C5_Witness ==
    /\ op = Op("then", 1, FALSE)
    /\ _value = 1
    /\ Idle

\* C6: when a listener vetoes the notification, the continuation leaves the
\* committed value undefined and the field text empty, whatever the proposed
\* and the previous value were.
C6_VetoClears ==
    [][ (Continues /\ Head(microtasks).defaultPrevented)
            => (_value' = Undef /\ inputText' = "") ]_vars

\* The assignment of item 2 was vetoed and its continuation has run.
C6_Witness ==
    /\ op = Op("then", 2, TRUE)
    /\ _value = Undef
    /\ inputText = ""

\* The option the active index is on is absent or disabled.
ActiveUnselectable ==
    \/ _activeOptionIndex < 0
    \/ _activeOptionIndex >= Len(_options)
    \/ _options[_activeOptionIndex + 1].disabled

\* The step notified nobody and left the committed value, the field text,
\* the list, the open state and the pending assignments as they were.
NothingSelected ==
    /\ emitted' = << >>
    /\ UNCHANGED << _value, inputText, _options, _open, microtasks >>

\* C7: a click on a disabled option, and Enter while the active index is on
\* a disabled option or on no option, change neither the committed value, the
\* field text, the list nor the open state, and dispatch no notification.
C7_SelectingDisabledIsNoOp ==
    [][ /\ \A i \in 0..(Len(_options) - 1) :
              (ClickOption(i) /\ _options[i + 1].disabled) => NothingSelected
        /\ (_onKeydown("Enter") /\ ActiveUnselectable) => NothingSelected ]_vars

\* The disabled first option of an open list was just clicked.
C7_Witness ==
    /\ op = Op("click", 0, FALSE)
    /\ _open
    /\ _options[1].disabled
    /\ _value = 2
    /\ microtasks = << >>

\* The first K options are disabled and the others, at least one, are not.
LeadingDisabled(K) ==
    /\ Len(_options) > K
    /\ \A j \in 1..Len(_options) : _options[j].disabled <=> j <= K

\* C8: when the first K options are disabled and the others are not, the
\* list is open and no option is active, ArrowDown makes K the active index.
C8_ArrowDownPassesLeadingDisabled ==
    [][ \A K \in 0..Len(_options) :
            ( /\ LeadingDisabled(K)
              /\ _open
              /\ _activeOptionIndex = NoIndex
              /\ _onKeydown("ArrowDown") )
            => _activeOptionIndex' = K ]_vars

\* ArrowDown just went over two disabled options to the third one.
C8_Witness ==
    /\ op = Op("ArrowDown", Undef, TRUE)
    /\ Len(_options) = 3
    /\ LeadingDisabled(2)
    /\ _activeOptionIndex = 2

\* The list is open and made of an option that is not disabled, a disabled
\* one and a third that is not disabled.
ThreeOptions ==
    /\ _open
    /\ Len(_options) = 3
    /\ ~_options[1].disabled /\ _options[2].disabled /\ ~_options[3].disabled

\* C9: Enter, while the list is open and the active index is on an option i
\* that is not disabled, assigns options[i].value to `value`; when no
\* listener vetoes, the continuation commits that value, and it leaves the
\* list empty and closed. On a list of an enabled, a disabled and an enabled
\* option, ArrowDown from no active option gives index 0, ArrowDown again
\* gives index 2, and Enter then commits the value of the third option.
C9_EnterCommitsActiveOption ==
    [][ /\ (_open /\ ~ActiveUnselectable /\ _onKeydown("Enter")) =>
              /\ emitted' = << _options[_activeOptionIndex + 1].value >>
              /\ Len(microtasks') = 1
              /\ microtasks'[1].val = _options[_activeOptionIndex + 1].value
        /\ Continues =>
              /\ _options' = << >>
              /\ ~_open'
              /\ ~Head(microtasks).defaultPrevented => _value' = Head(microtasks).val
        /\ (ThreeOptions /\ _onKeydown("ArrowDown")) =>
              /\ _activeOptionIndex = NoIndex => _activeOptionIndex' = 0
              /\ _activeOptionIndex = 0 => _activeOptionIndex' = 2
        /\ (ThreeOptions /\ _activeOptionIndex = 2 /\ _onKeydown("Enter")) =>
              microtasks'[1].val = _options[3].value ]_vars

\* Enter was just pressed with the active index on the third option of such
\* a list, reached over the disabled second one: the value of the third
\* option is notified and about to be committed.
C9_Witness ==
    /\ op = Op("Enter", Undef, TRUE)
    /\ ThreeOptions
    /\ _activeOptionIndex = 2
    /\ _options[3].value = 3
    /\ emitted = << 3 >>
    /\ microtasks = << [ val |-> 3, defaultPrevented |-> FALSE ] >>

\* C10: in every reachable state the active index is NoIndex or the index of
\* an option of the list that is not disabled.
C10_ActiveIndexValid ==
    \/ _activeOptionIndex = NoIndex
    \/ /\ _activeOptionIndex >= 0
       /\ _activeOptionIndex < Len(_options)
       /\ ~_options[_activeOptionIndex + 1].disabled

\* C11: in every reachable state the list is open only if the stored option
\* list is not empty, and while the list is closed no option is active: a
\* step that closes the list leaves the active index at NoIndex.
C11_OpenOnlyNonEmptyClosedNoActive ==
    /\ _open => Len(_options) > 0
    /\ ~_open => _activeOptionIndex = NoIndex

\* An outside click just closed a list that is still stored.
C11_Witness ==
    /\ op = Op("_handleClickOutside", Undef, FALSE)
    /\ ~_open
    /\ Len(_options) > 0
    /\ _activeOptionIndex = NoIndex

\* The text the field shows for a committed item: its name in
\* AUTOCOMPLETE_DATA, nothing for undefined.
NameOf(val) == IF val = Undef THEN "" ELSE Names[val]

\* C12: every assignment to `value` (by the host, by the selection of an
\* option, by clear) dispatches exactly one notification, carrying the
\* assigned value, and defers one continuation; the continuation dispatches
\* nothing more, leaves the list empty and closed and writes the field text:
\* the name of the value when the notification was accepted, the empty text
\* when it was vetoed.
C12_AssignmentClosesListOnce ==
    [][ /\ Assigns =>
              /\ Len(microtasks') = Len(microtasks) + 1
              /\ Len(emitted') = 1
              /\ emitted'[1] = microtasks'[Len(microtasks')].val
        /\ ~Assigns => emitted' = << >>
        /\ Continues =>
              /\ _options' = << >>
              /\ ~_open'
              /\ _activeOptionIndex' = NoIndex
              /\ inputText' = IF Head(microtasks).defaultPrevented
                                 THEN "" ELSE NameOf(Head(microtasks).val) ]_vars

\* The host assigned item 2 while text was typed; the continuation of the
\* accepted assignment has run and the field shows the name of item 2.
C12_Witness ==
    /\ op = Op("then", 2, FALSE)
    /\ sinceInput.phase \in {"armed", "called"}
    /\ inputText = "Option2"
    /\ _options = << >>
    /\ ~_open

\* The steps in which a listener registered by connectedCallback runs: on an
\* input event, a keydown event or a click in the document.
ListenerRuns == op'.name \in {"_onInput", "_handleClickOutside"} \cup Keys

\* C13: once the element is torn down, an input, keydown or click event
\* changes neither the option list, the open state, the active index, the
\* committed value nor the abort controller, arms no timeout, assigns no
\* value and dispatches no notification.
C13_NoListenerAfterTeardown ==
    [][ (lifecycle = "disconnected" /\ ListenerRuns) =>
            /\ emitted' = << >>
            /\ UNCHANGED << _options, _open, _activeOptionIndex, _value,
                            _abortController, timer, microtasks >> ]_vars

\* C14: a timeout of the debounced function that is pending when the element
\* is torn down and elapses right after does nothing: it does not call
\* fetchData and leaves the option list and the open state as they were.
C14_TimeoutAfterTeardownIsNoOp ==
    [][ (op.name = "disconnectedCallback" /\ timer > 0 /\ timer' < timer) =>
            /\ called' = << >>
            /\ fetches' = fetches
            /\ UNCHANGED << _options, _open >> ]_vars

\* The signal pending fetch f was called with is not aborted: it is the
\* signal of the present controller and that controller was not aborted.
NotAborted(f) == f.signal = "current" /\ _abortController = "live"

\* The pending fetches whose signal is not aborted, as a bag.
LiveFetches == [ f \in { g \in BagToSet(fetches) : NotAborted(g) } |-> fetches[f] ]

C16_ErrorInsideConnectCall ==
    (op.name = "connectedCallback" /\ _inputEls = 0) => lifecycle = "failed"

\* C16 amended: the call of connectedCallback raises nothing and registers
\* nothing, whether an input target exists or not; the configuration error
\* of an element without input target is raised by the continuation that runs
\* once the first update is complete, and such an element never has a
\* listener registered.
C16_ErrorInConnectContinuation ==
    [][ /\ lifecycle = "created" =>
              /\ lifecycle' \in {"created", "connecting"}
              /\ listeners' = {}
        /\ (lifecycle = "connecting" /\ lifecycle' # "connecting" /\ _inputEls = 0) =>
              /\ lifecycle' = "failed"
              /\ op'.name = "connected"
        /\ _inputEls' = 0 => listeners' = {} ]_vars

\* The continuation of connectedCallback found no input target and failed.
C16_Witness ==
    /\ op = Op("connected", Undef, FALSE)
    /\ _inputEls = 0
    /\ lifecycle = "failed"
    /\ listeners = {}

\* C17: ArrowDown, ArrowUp, Enter and Escape pressed while the list is
\* closed or the option list is empty change neither the active index, the
\* open state, the options, the committed value nor the field text, assign
\* nothing and leave the default behaviour of the event alone; pressed while
\* the list is open (and not empty) each of them suppresses the default
\* behaviour.
C17_KeysHandledOnlyWhenOpen ==
    [][ \A key \in {"ArrowDown", "ArrowUp", "Enter", "Escape"} :
          _onKeydown(key) =>
              IF ~_open \/ Len(_options) = 0
                THEN /\ UNCHANGED << _activeOptionIndex, _open, _options, _value,
                                     inputText, microtasks >>
                     /\ emitted' = << >>
                     /\ ~op'.vetoed
                ELSE op'.vetoed ]_vars

\* ArrowDown was just pressed on a list that is stored but closed: the
\* default behaviour was not suppressed and no option became active.
C17_Witness ==
    /\ op = Op("ArrowDown", Undef, FALSE)
    /\ ~_open
    /\ Len(_options) > 0
    /\ _activeOptionIndex = NoIndex

\* The 0-based indices of the options that are not disabled.
Enabled == { j \in 0..(Len(_options) - 1) : ~_options[j + 1].disabled }

Least(S) == CHOOSE x \in S : \A y \in S : x <= y
Greatest(S) == CHOOSE x \in S : \A y \in S : x >= y

\* The index ArrowDown / ArrowUp is to leave active: the nearest index of an
\* option that is not disabled after / before the active one, the active
\* index itself when there is none.
NextEnabled ==
    LET S == { j \in Enabled : j > _activeOptionIndex }
    IN  IF S = {} THEN _activeOptionIndex ELSE Least(S)

PreviousEnabled ==
    LET S == { j \in Enabled : j < _activeOptionIndex }
    IN  IF S = {} THEN _activeOptionIndex ELSE Greatest(S)

\* C18: on an open list ArrowDown leaves the active index on the nearest
\* option after it that is not disabled and ArrowUp on the nearest one before
\* it; when there is no such option the active index stays as it is: it
\* neither wraps around nor becomes NoIndex.
C18_ArrowsMoveToNearestEnabled ==
    [][ /\ (_open /\ Len(_options) > 0 /\ _onKeydown("ArrowDown")) =>
              _activeOptionIndex' = NextEnabled
        /\ (_open /\ Len(_options) > 0 /\ _onKeydown("ArrowUp")) =>
              _activeOptionIndex' = PreviousEnabled ]_vars

\* C19: Escape pressed while the list is open closes the list and resets
\* the active index to NoIndex; it leaves the committed value, the field text
\* and the stored options as they were, assigns nothing and dispatches no
\* notification.
C19_EscapeCloses ==
    [][ (_open /\ Len(_options) > 0 /\ _onKeydown("Escape")) =>
            /\ ~_open'
            /\ _activeOptionIndex' = NoIndex
            /\ emitted' = << >>
            /\ UNCHANGED << _value, inputText, _options, microtasks >> ]_vars

\* Escape was just handled on a list of three options: the list is closed,
\* no option is active, the committed item 2 and the typed text are there.
C19_Witness ==
    /\ op = Op("Escape", Undef, TRUE)
    /\ ~_open
    /\ _activeOptionIndex = NoIndex
    /\ Len(_options) = 3
    /\ _value = 2
    /\ inputText = "abc"

\* C20: a click outside the element while the list is open closes the list
\* and resets the active index to NoIndex; it leaves the committed value and
\* the field text as they were, aborts no signal, drops no pending fetch and
\* no pending timeout, assigns nothing and dispatches no notification.
C20_OutsideClickCloses ==
    [][ (_open /\ _handleClickOutside(FALSE)) =>
            /\ ~_open'
            /\ _activeOptionIndex' = NoIndex
            /\ emitted' = << >>
            /\ UNCHANGED << _value, inputText, _abortController, fetches, timer,
                            microtasks >> ]_vars

\* A click outside just closed the list while a fetch is pending and the
\* signal of the controller is not aborted.
C20_Witness ==
    /\ op = Op("_handleClickOutside", Undef, FALSE)
    /\ ~_open
    /\ Len(_options) > 0
    /\ _abortController = "live"
    /\ BagCardinality(fetches) > 0

\* C21: clear() aborts the signal of the controller, with the reason of a
\* clear when it was not aborted yet, before it dispatches the notification
\* for undefined: the listener of the host already reads the signal as
\* aborted. Once its continuation has run the committed value is undefined,
\* the field text empty and the option list empty and closed, whether the
\* host called preventDefault or not.
C21_ClearAbortsThenNotifies ==
    [][ /\ _onClear =>
              /\ _abortController' = abort(_abortController, ReasonCleared)
              /\ _abortController' # "live"
              /\ emitted' = << Undef >>
              /\ Len(heard') = 1
              /\ heard'[1].detail = Undef
              /\ heard'[1].signal = _abortController'
        /\ (op.name = "_onClear" /\ ValueContinuation) =>
              /\ _value' = Undef
              /\ inputText' = ""
              /\ _options' = << >>
              /\ ~_open' ]_vars

\* clear() was just called with item 2 committed, text in the field and a
\* fetch pending: the listener read the signal as aborted by the clear, and
\* called preventDefault.
C21_Witness ==
    /\ op.name = "_onClear"
    /\ heard = << dispatchEvent(Undef, 2, ReasonCleared) >>
    /\ inputText # ""
    /\ BagCardinality(fetches) > 0
    /\ microtasks = << set_value(Undef, TRUE) >>

\* C22: every assignment to `value`, the assignment of undefined by a clear
\* included, dispatches one notification inside the assignment, before the
\* committed value changes: the listener of the host reads the proposed
\* value in the detail and the previous committed value in `value`. No other
\* step dispatches a notification.
C22_NotifiedBeforeStored ==
    [][ /\ Assigns =>
              /\ Len(heard') = 1
              /\ heard'[1].detail = microtasks'[Len(microtasks')].val
              /\ heard'[1].value = _value
              /\ op'.name = "value" => heard'[1].detail = op'.arg
        /\ _onClear => (Assigns /\ heard'[1].detail = Undef)
        /\ ~Assigns => heard' = << >> ]_vars

\* The host just assigned item 2 while item 1 was committed: its listener
\* read item 2 in the detail and item 1 in `value`.
C22_Witness ==
    /\ op = Op("value", 2, FALSE)
    /\ heard = << dispatchEvent(2, 1, "live") >>
    /\ _value = 1

\* C23: when the promise of a fetch rejects, nothing is applied: the option
\* list, the open state and the active index stay as they were (empty and
\* closed when the input event left them so), and the committed value, the
\* field text, the controller, the pending timeout and the clear control
\* are unchanged; no notification is dispatched and no fetch is started.
C23_RejectionAppliesNothing ==
    [][ \A f \in BagToSet(fetches) :
          FetchReject(f) =>
              /\ UNCHANGED << _options, _open, _activeOptionIndex, _value, inputText,
                              _abortController, timer, clearHidden, microtasks >>
              /\ emitted' = << >>
              /\ called' = << >>
              /\ (sinceInput.phase = "called" /\ f.latest /\ _options = << >> /\ ~_open)
                    => (_options' = << >> /\ ~_open') ]_vars

\* The only fetch started since the last input event just rejected: the
\* list is empty and closed, the typed text and the controller are there.
C23_Witness ==
    /\ op = Op("reject", Undef, FALSE)
    /\ sinceInput.phase = "called"
    /\ fetches = EmptyBag
    /\ _options = << >>
    /\ ~_open
    /\ inputText \in Typed
    /\ _abortController = "live"

\* C24: while fetchData is the one of the class, which resolves with an
\* empty list, the stored option list is empty and the list is closed in
\* every state, whatever input events, timeouts, keys and clicks come.
C24_DefaultFetchStaysInert ==
    /\ _options = << >>
    /\ ~_open
    /\ _activeOptionIndex = NoIndex

\* The default fetchData was called for typed text and its promise has just
\* resolved.
C24_Witness ==
    /\ op = Op("resolve", 0, FALSE)
    /\ sinceInput.phase = "called"
    /\ inputText \in Typed
    /\ _options = << >>
    /\ ~_open

\* the text C25 gives the field for an option
ClaimedText(option) ==
    IF option = << >> THEN ""
    ELSE IF option[1].inputValue # << >> THEN option[1].inputValue[1]
    ELSE option[1].label.text

\* C25: a commit the listeners did not veto writes into the field the
\* inputValue of the option dataToOption returned when the option has one,
\* the empty string included; else the label when it is text; else the text
\* content of the label when it is an element; else the empty string.
C25_FieldTextPriority ==
    [][ \A option \in HostOptions :
          (ValueContinuationOf(option) /\ ~Head(microtasks).defaultPrevented)
              => inputText' = ClaimedText(option) ]_vars

\* The steps that complete an input event (one that left text in the field:
\* an emptied field hands over to the value setter) or a value assignment
\* (the continuation of the setter).
Completes == Continues \/ (op'.name = "_onInput" /\ inputText' # "")

\* C26: after every completed input event and every completed value
\* assignment the clear control is visible exactly when the committed value
\* is not undefined (0 is such a value) or the field text is not empty.
C26_ClearVisibleIffValueOrText ==
    [][ Completes =>
          (~clearHidden' <=> (_value' # Undef \/ inputText' # "")) ]_vars

\* the entries of a list given to the options setter that are not undefined,
\* in the order of the list
Defined(val) == SelectSeq(val, LAMBDA o : o # << >>)
Kept(val) == [ i \in 1..Len(Defined(val)) |-> Defined(val)[i][1] ]

\* C27 as stated: the options setter stores the entries that are not
\* undefined in their order and opens the list exactly when the list it was
\* given had an entry, undefined entries included.
C27_OpensIffGivenNonEmpty ==
    [][ given' # << >> =>
          /\ _options' = Kept(given'[1])
          /\ _open' <=> Len(given'[1]) > 0 ]_vars

\* C27 amended: the options setter stores the entries that are not undefined
\* in their order and opens the list exactly when an entry is left after the
\* filtering; a list of undefined entries only leaves the list empty and
\* closed.
C27_OpensIffStoredNonEmpty ==
    [][ given' # << >> =>
          /\ _options' = Kept(given'[1])
          /\ _open' <=> Len(Kept(given'[1])) > 0 ]_vars

\* A fetch just resolved with three items, the second undefined: items 2
\* and 1 are stored in that order and the list is open.
C27_Witness ==
    /\ op = Op("resolve", 3, FALSE)
    /\ Len(given[1]) = 3
    /\ given[1][2] = << >>
    /\ Len(_options) = 2
    /\ _options[1].value = 2
    /\ _options[2].value = 1
    /\ _open

\* C28: every entry of the stored option list is an option, never
\* undefined, and the list is replaced as a whole: once a fetch result is
\* applied the stored list is the sequence of dataToOption(item) over the
\* fetched items without the undefined results, whatever was stored before,
\* and right after every input event the stored list is empty.
C28_ListReplacedWholesale ==
    [][ /\ \A i \in 1..Len(_options') : "value" \in DOMAIN _options'[i]
        /\ op'.name = "resolve" =>
              /\ Len(given') = 1
              /\ Len(given'[1]) = op'.arg
              /\ _options' = Kept(given'[1])
        /\ op'.name = "_onInput" => _options' = << >> ]_vars

\* A fetch just resolved with an undefined item and item 2 while an option
\* of the list shown before was active: item 2 alone is stored.
C28_Witness ==
    /\ op = Op("resolve", 2, FALSE)
    /\ given[1][1] = << >>
    /\ Len(_options) = 1
    /\ _options[1].value = 2
    /\ _activeOptionIndex >= 0

\* the target indexes _navigateToOption is tried with: from two before the
\* list to two after it
Targets == (0 - 2)..(Len(_options) + 1)

\* no option that is not disabled lies on the side of the active index that
\* target newIndex lies on
NoneToward(newIndex) ==
    \A j \in Enabled :
        IF newIndex > _activeOptionIndex THEN j <= _activeOptionIndex
        ELSE j >= _activeOptionIndex

\* C29: for the option list and the active index of every state and for
\* every target index, _navigateToOption returns after at most one call per
\* option and one more, lists of disabled options only included; when no
\* option that is not disabled lies in the direction of the target, it
\* leaves the active index as it is.
C29_NavigationTerminates ==
    \A newIndex \in Targets :
        /\ NavigateCalls(newIndex, _activeOptionIndex, _options) <= Len(_options) + 1
        /\ NoneToward(newIndex) =>
              _navigateToOption(newIndex, _activeOptionIndex, _options) = _activeOptionIndex

\* ArrowDown was just handled on an open list of three disabled options:
\* no option is active.
C29_Witness ==
    /\ op = Op("ArrowDown", Undef, TRUE)
    /\ _open
    /\ Len(_options) = 3
    /\ Enabled = {}
    /\ _activeOptionIndex = NoIndex

\* C30: every input event, inside its handler, empties and closes the option
\* list and resets the active index to NoIndex. When it leaves text in the
\* field it also aborts the signal the pending fetches hold, puts a
\* controller whose signal is not aborted in place, leaves exactly one
\* timeout of the debounced fetch pending, calls fetchData not yet, leaves
\* the committed value as it was and dispatches no notification.
C30_InputEventResetsAndArms ==
    [][ \A t \in Typed \cup {""} :
          _onInput(t) =>
              /\ _options' = << >>
              /\ ~_open'
              /\ _activeOptionIndex' = NoIndex
              /\ t # "" =>
                    /\ _abortController' = "live"
                    /\ \A f \in BagToSet(fetches') : f.signal = "replaced"
                    /\ BagCardinality(fetches') = BagCardinality(fetches)
                    /\ timer' = 1
                    /\ called' = << >>
                    /\ _value' = _value
                    /\ emitted' = << >>
                    /\ heard' = << >>
                    /\ microtasks' = microtasks ]_vars

\* An input event just left "abc" in the field while item 2 is committed
\* and a fetch is pending: the list is empty and closed, the fetch holds an
\* aborted signal, the controller is new and one timeout is pending.
C30_Witness ==
    /\ op = Op("_onInput", Undef, FALSE)
    /\ inputText = "abc"
    /\ _value = 2
    /\ _options = << >>
    /\ ~_open
    /\ _abortController = "live"
    /\ timer = 1
    /\ BagCardinality(fetches) = 1
    /\ \A f \in BagToSet(fetches) : f.signal = "replaced"

\* C31: Enter pressed while the list is open and no option is active commits
\* nothing: the committed value, the field text, the option list, the open
\* state and the active index stay as they were, nothing is assigned to
\* `value` and no notification is dispatched.
C31_EnterWithoutActiveIsNoOp ==
    [][ (_open /\ Len(_options) > 0 /\ _activeOptionIndex = NoIndex
            /\ _onKeydown("Enter")) =>
              /\ UNCHANGED << _value, inputText, _options, _open, _activeOptionIndex,
                              microtasks >>
              /\ emitted' = << >>
              /\ heard' = << >> ]_vars

\* Enter was just handled on an open list of three options, the last one
\* not disabled, with no option active: nothing is waiting to be committed.
C31_Witness ==
    /\ op = Op("Enter", Undef, TRUE)
    /\ _open
    /\ Len(_options) = 3
    /\ ~_options[3].disabled
    /\ _activeOptionIndex = NoIndex
    /\ microtasks = << >>
    /\ emitted = << >>

\* C32: once an assignment of a value has completed, the option list stays
\* empty and closed until the next input event: no fetch that was pending
\* and no timeout that was pending when the value was assigned fills or
\* opens the list afterwards.
C32_ListStaysClosedAfterCommit ==
    committedSinceInput => (_options = << >> /\ ~_open)

\* C33: every call of fetchData is made with a signal that is not aborted
\* when the call is made and with a query that is not empty, however input
\* events, clears, the teardown and the timeouts interleave.
C33_FetchCalledLiveNonEmpty ==
    \A i \in 1..Len(called) : ~called[i].aborted /\ called[i].query # ""

\* C34: also after the element was removed and inserted again, each event
\* of the user is handled once: one click on the clear control dispatches
\* one notification; one input event assigns the option list once (one run
\* of _onInput, which makes one new controller when it leaves text) and
\* leaves one timeout of the debounced fetch pending.
C34_EachEventHandledOnce ==
    /\ op.name = "_onClear" => Len(emitted) = 1
    /\ op.name = "_onInput" =>
          /\ Len(given) = 1
          /\ Len(emitted) <= 1
          /\ inputText # "" => timer + timerOuter = 1

\* C35: a list that is closed while options are stored (Escape or a click
\* outside closed it) stays closed until a fetch result is applied: no other
\* step opens it, and a click inside the element leaves it closed.
C35_ClosedUntilFetchResult ==
    [][ /\ (~_open /\ Len(_options) > 0 /\ _open') => op'.name = "resolve"
        /\ (~_open /\ _handleClickOutside(TRUE)) => ~_open' ]_vars

====
